---- MODULE Spec2Model ----
(***************************************************************************)
(* hudsucker, src/proxy/internal.rs: the per-request dispatcher            *)
(* (InternalProxy::proxy), the CONNECT demultiplexer (process_connect),    *)
(* the inner HTTP server (serve_stream), the WebSocket bridge              *)
(* (upgrade_websocket, handle_websocket, spawn_message_forwarder).         *)
(*                                                                         *)
(* Every dispatcher invocation, tunnel task and bridge task is a record in *)
(* a sequence; its pc names the await point the future is suspended at.    *)
(* One action is one resumption of a future: everything the code does      *)
(* between two await points.                                               *)
(***************************************************************************)
EXTENDS Naturals, Integers, Sequences, FiniteSets, TLC

VARIABLES
    invs,           \* dispatcher invocations: futures of InternalProxy::proxy
    tunnels,        \* tasks spawned by process_connect
    bridges,        \* tasks spawned by upgrade_websocket, with their frame pumps
    handler_calls,  \* calls the shared HttpHandler has received, per method
    norm            \* one application of normalize_request: argument and result

vars == <<invs, tunnels, bridges, handler_calls, norm>>

(***************************************************************************)
(* Bounds of the model.                                                    *)
(***************************************************************************)
MaxInv     == 2     \* dispatcher invocations in one run
MaxTunnels == 1     \* CONNECT tunnel tasks in one run
MaxBridges == 1     \* WebSocket bridge tasks in one run
MaxFrames  == 1     \* frames one pump forwards
MaxCookies == 3     \* Cookie header values of one request

(***************************************************************************)
(* Requests.  A URI is what http::uri::Parts holds: optional scheme,       *)
(* optional authority, optional path-and-query.                            *)
(***************************************************************************)
NoScheme    == "none"
NoAuthority == "none"
Authority   == "origin.test:443"

Methods  == {"GET", "CONNECT"}
Versions == {"HTTP/1.0", "HTTP/1.1", "HTTP/2.0"}

\* http::Uri::from_parts: a scheme needs an authority and a path; an authority
\* together with a path needs a scheme; the empty URI does not exist.
FromPartsOk(parts) ==
    IF parts.scheme # NoScheme
    THEN parts.authority # NoAuthority /\ parts.path
    ELSE /\ ~(parts.authority # NoAuthority /\ parts.path)
         /\ (parts.authority # NoAuthority \/ parts.path)

Uris ==
    { u \in [scheme : {NoScheme, "http", "https", "ftp"},
             authority : {NoAuthority, Authority},
             path : BOOLEAN] : FromPartsOk(u) }

\* The Host and Cookie entries of a HeaderMap: per name, the values in
\* insertion order.  A value is its bytes.
CookieA == <<97, 61, 49>>           \* "a=1"
CookieB == <<98>>                   \* "b"
NoHeaders == [host |-> <<>>, cookie |-> <<>>]

\* The headers the requests of a run carry: none on HTTP/1.0, Host and one
\* Cookie on HTTP/1.1, two Cookie fields and no Host on HTTP/2.
HeadersOf(version) ==
    CASE version = "HTTP/1.1" -> [host |-> <<Authority>>, cookie |-> <<CookieA>>]
      [] version = "HTTP/2.0" -> [host |-> <<>>, cookie |-> <<CookieA, CookieB>>]
      [] OTHER -> NoHeaders

\* upgrade: the Connection: upgrade and Upgrade: websocket headers, which
\* hyper_tungstenite::is_upgrade_request reads; wsKey: Sec-WebSocket-Key and
\* Sec-WebSocket-Version: 13, which hyper_tungstenite::upgrade requires.
Requests ==
    { [method |-> m, uri |-> u, upgrade |-> w[1], wsKey |-> w[2], version |-> v,
       headers |-> HeadersOf(v)] :
        m \in Methods, u \in Uris, v \in Versions,
        w \in {<<FALSE, FALSE>>, <<TRUE, FALSE>>, <<TRUE, TRUE>>} }

\* The request of a future that no longer owns one: it was moved out, or the
\* future is gone.
NoRequest ==
    [method |-> "none",
     uri |-> [scheme |-> NoScheme, authority |-> NoAuthority, path |-> FALSE],
     upgrade |-> FALSE, wsKey |-> FALSE, version |-> "none",
     headers |-> NoHeaders]

\* Requests the outer listener receives: HTTP/1.1, an upgrade request with
\* its Sec-WebSocket headers.
OuterRequests == { r \in Requests : r.version = "HTTP/1.1" /\ r.wsKey = r.upgrade }

(***************************************************************************)
(* Sequences of records: helpers.                                          *)
(***************************************************************************)
Append2(s, a, b) == Append(Append(s, a), b)

Count(s, e) == Cardinality({k \in 1..Len(s) : s[k] = e})

Has(s, e) == \E k \in 1..Len(s) : s[k] = e

TypeOK ==
    /\ Len(invs) <= MaxInv
    /\ Len(tunnels) <= MaxTunnels
    /\ Len(bridges) <= MaxBridges

\* No application of normalize_request is being looked at.
NormIdle == [pc |-> "idle", req |-> NoRequest, out |-> NoRequest]

Init ==
    /\ invs = <<>>
    /\ tunnels = <<>>
    /\ bridges = <<>>
    /\ handler_calls = [handle_request |-> 0, handle_response |-> 0,
                        handle_error |-> 0, should_intercept |-> 0,
                        handle_websocket |-> 0]
    /\ norm = NormIdle

(***************************************************************************)
(* Responses the dispatcher can resolve with.                              *)
(***************************************************************************)
NoResponse       == "none"
EmptyResponse    == "empty_200"          \* Response::new(Body::empty())
BadRequest       == "bad_request_400"    \* bad_request()
FromHandleRequest  == "handle_request_response"
FromHandleResponse == "handle_response_response"
FromHandleError    == "handle_error_response"
OriginHandshake  == "origin_handshake_response"
\* The response hyper_tungstenite::upgrade builds, bound to _ at line 251.
FabricatedHandshake == "fabricated_handshake_response"

\* bad_request(): status 400, empty body.
bad_request == BadRequest

(***************************************************************************)
(* normalize_request.                                                      *)
(***************************************************************************)
Sep == <<59, 32>>                   \* b"; "

\* bstr::join(sep, values): the values with sep between them.
RECURSIVE Join(_, _)
Join(sep, values) ==
    IF values = <<>> THEN <<>>
    ELSE IF Len(values) = 1 THEN values[1]
    ELSE values[1] \o sep \o Join(sep, Tail(values))

\* Mutant of normalize_request: the Host header is left in.
normalize_request_KeepsHost(req) ==
    [req EXCEPT !.headers.cookie = IF @ # <<>> THEN <<Join(Sep, @)>> ELSE @,
                !.version = "HTTP/1.1"]

\* Mutant of normalize_request: the Cookie entry is replaced by its first
\* value.
normalize_request_KeepsFirstCookie(req) ==
    [req EXCEPT !.headers.host = <<>>,
                !.headers.cookie = IF @ # <<>> THEN <<@[1]>> ELSE @,
                !.version = "HTTP/1.1"]

\* normalize_request: remove Host; an occupied Cookie entry gets the single
\* value join("; ", its values); the version becomes HTTP/1.1.
normalize_request(req) ==
    [req EXCEPT !.headers.host = <<>>,
                !.headers.cookie = IF @ # <<>> THEN <<Join(Sep, @)>> ELSE @,
                !.version = "HTTP/1.1"]

(***************************************************************************)
(* InternalProxy::proxy.                                                   *)
(***************************************************************************)
\* Mutant of Route: the upgrade headers are looked at before the method.
Route_UpgradeFirst(req) ==
    IF req.upgrade THEN "websocket"
    ELSE IF req.method = "CONNECT" THEN "connect"
    ELSE "forward"

\* if method == CONNECT .. else if is_upgrade_request .. else ..
Route(req) ==
    IF req.method = "CONNECT" THEN "connect"
    ELSE IF req.upgrade THEN "websocket"
    ELSE "forward"

NewInvocation(origin, req) ==
    [origin |-> origin, req |-> req, pc |-> "handle_request",
     log |-> <<"handle_request">>, resp |-> NoResponse]

NewTunnel(parent, authority) ==
    [parent |-> parent, authority |-> authority, pc |-> "upgrade_on",
     stream |-> <<>>, buffer |-> <<0, 0, 0, 0>>, bytes_read |-> 0,
     intercept |-> "unknown", route |-> "none", scheme |-> NoScheme,
     rewind |-> <<>>, offset |-> 0, to_upstream |-> <<>>,
     upstream |-> <<>>, to_client |-> <<>>,
     client_eof |-> FALSE, upstream_eof |-> FALSE,
     log |-> <<>>]

\* proxy() is called with a request: the future is created and polled up to
\* the first await, the call of handle_request.
Proxy(origin, req) ==
    /\ Len(invs) < MaxInv
    /\ invs' = Append(invs, NewInvocation(origin, req))
    /\ handler_calls' = [handler_calls EXCEPT !.handle_request = @ + 1]

\* The outer listener's service hands an accepted request to proxy().
Accept ==
    /\ \E req \in OuterRequests : Proxy(0, req)
    /\ UNCHANGED <<tunnels, bridges>>
    /\ UNCHANGED norm

\* Mutant of process_connect: the task is spawned before the authority is
\* looked at.
process_connect_SpawnsAnyway(inv, req) ==
    IF req.uri.authority # NoAuthority
    THEN [inv |-> [inv EXCEPT !.req = req, !.pc = "returned", !.resp = EmptyResponse,
                              !.log = Append2(@, "process_connect", "spawn_tunnel")],
          spawn |-> TRUE]
    ELSE [inv |-> [inv EXCEPT !.req = req, !.pc = "returned", !.resp = bad_request,
                              !.log = Append2(@, "process_connect", "spawn_tunnel")],
          spawn |-> TRUE]

\* process_connect: the authority decides between spawning the tunnel task
\* with an empty response and bad_request().
process_connect(inv, req) ==
    IF req.uri.authority # NoAuthority
    THEN [inv |-> [inv EXCEPT !.req = req, !.pc = "returned", !.resp = EmptyResponse,
                              !.log = Append2(@, "process_connect", "spawn_tunnel")],
          spawn |-> TRUE]
    ELSE [inv |-> [inv EXCEPT !.req = req, !.pc = "returned", !.resp = bad_request,
                              !.log = Append(@, "process_connect")],
          spawn |-> FALSE]

\* upgrade_websocket, lines 225-246: http (or no scheme) becomes ws, anything
\* else wss; the URI is rebuilt with Uri::from_parts.
WsScheme(scheme) ==
    IF (IF scheme = NoScheme THEN "http" ELSE scheme) = "http" THEN "ws" ELSE "wss"

WsUri(uri) == [uri EXCEPT !.scheme = WsScheme(uri.scheme)]

\* The scheme upgrade_websocket was entered with, as an event of the log.
SchemeEvent(scheme) ==
    CASE scheme = NoScheme -> "scheme:none"
      [] scheme = "http" -> "scheme:http"
      [] scheme = "https" -> "scheme:https"
      [] OTHER -> "scheme:other"

\* Mutant of upgrade_websocket: the outbound dial is started before the
\* server-side upgrade has checked the request's headers.
upgrade_websocket_DialsFirst(inv, req) ==
    LET entered == Append2(inv.log, "upgrade_websocket", SchemeEvent(req.uri.scheme)) IN
    IF ~FromPartsOk(WsUri(req.uri))
    THEN [inv EXCEPT !.req = req, !.pc = "returned", !.resp = bad_request,
                     !.log = entered]
    ELSE [inv EXCEPT !.req = [req EXCEPT !.uri = WsUri(req.uri)],
                     !.pc = "connect_async",
                     !.log = Append(entered, "connect_async")]

\* upgrade_websocket up to its first await: the URI rewrite, the server-side
\* hyper_tungstenite::upgrade, and the start of the outbound dial.
upgrade_websocket(inv, req) ==
    LET entered == Append2(inv.log, "upgrade_websocket", SchemeEvent(req.uri.scheme)) IN
    IF ~FromPartsOk(WsUri(req.uri))
    THEN [inv EXCEPT !.req = req, !.pc = "returned", !.resp = bad_request,
                     !.log = entered]
    ELSE IF ~req.wsKey
    THEN [inv EXCEPT !.req = [req EXCEPT !.uri = WsUri(req.uri)],
                     !.pc = "returned", !.resp = bad_request,
                     !.log = entered]
    ELSE [inv EXCEPT !.req = [req EXCEPT !.uri = WsUri(req.uri)],
                     !.pc = "connect_async",
                     !.log = Append(entered, "connect_async")]

\* Mutant of forward: the response handler is entered without awaiting the
\* send.
forward_EarlyResponse(inv, req) ==
    [inv EXCEPT !.req = normalize_request(req), !.pc = "handle_response",
                !.log = Append(Append2(@, "normalize_request", "client.request"),
                               "handle_response")]

\* The plain forward up to its await: normalize, start client.request.
forward(inv, req) ==
    [inv EXCEPT !.req = normalize_request(req), !.pc = "client_request",
                !.log = Append2(@, "normalize_request", "client.request")]

\* Mutant of short_circuit: the handler's response is run through
\* handle_response like a forwarded one.
short_circuit_ThroughHandleResponse(inv) ==
    [inv EXCEPT !.pc = "handle_response",
                !.log = Append2(@, "handle_request:Response", "handle_response")]

\* RequestOrResponse::Response(res) => return Ok(res)
short_circuit(inv) ==
    [inv EXCEPT !.pc = "returned", !.resp = FromHandleRequest,
                !.log = Append(@, "handle_request:Response")]

\* handle_request resolves with RequestOrResponse::Response(res).
HandleRequestResponse(i) ==
    /\ invs[i].pc = "handle_request"
    /\ invs' = [invs EXCEPT ![i] = short_circuit(invs[i])]
    /\ UNCHANGED <<tunnels, bridges, handler_calls>>
    /\ UNCHANGED norm

\* handle_request resolves with RequestOrResponse::Request(req), any request.
HandleRequestRequest(i) ==
    /\ invs[i].pc = "handle_request"
    /\ \E req \in Requests :
        LET inv == [invs[i] EXCEPT !.log = Append(@, "handle_request:Request")] IN
        CASE Route(req) = "connect" ->
                LET pc == process_connect(inv, req) IN
                /\ invs' = [invs EXCEPT ![i] = pc.inv]
                /\ IF pc.spawn
                   THEN /\ Len(tunnels) < MaxTunnels
                        /\ tunnels' = Append(tunnels, NewTunnel(i, req.uri.authority))
                   ELSE UNCHANGED tunnels
          [] Route(req) = "websocket" ->
                /\ invs' = [invs EXCEPT ![i] = upgrade_websocket(inv, req)]
                /\ UNCHANGED tunnels
          [] OTHER ->
                /\ invs' = [invs EXCEPT ![i] = forward(inv, req)]
                /\ UNCHANGED tunnels
    /\ UNCHANGED <<bridges, handler_calls>>
    /\ UNCHANGED norm

\* Mutant of AfterSend: a failed send is passed to handle_response too.
AfterSend_AlwaysResponse(ok) ==
    [event |-> IF ok THEN "client.request:Ok" ELSE "client.request:Err",
     next |-> "handle_response"]

\* client.request(..).await resolves: Ok goes to handle_response, Err to
\* handle_error.
AfterSend(ok) ==
    IF ok THEN [event |-> "client.request:Ok", next |-> "handle_response"]
    ELSE [event |-> "client.request:Err", next |-> "handle_error"]

ClientRequestReturn(i) ==
    /\ invs[i].pc = "client_request"
    /\ \E ok \in BOOLEAN :
        LET a == AfterSend(ok) IN
        /\ invs' = [invs EXCEPT ![i].pc = a.next, ![i].req = NoRequest,
                                ![i].log = Append2(@, a.event, a.next)]
        /\ handler_calls' = [handler_calls EXCEPT ![a.next] = @ + 1]
    /\ UNCHANGED <<tunnels, bridges>>
    /\ UNCHANGED norm

\* Mutant of HandlerResponse: a failed send is returned as the error it is.
HandlerResponse_PropagatesError(pc) ==
    IF pc = "handle_response" THEN FromHandleResponse ELSE "transport_error"

\* handle_response / handle_error resolves; proxy() returns Ok(its response).
HandlerResponse(pc) ==
    IF pc = "handle_response" THEN FromHandleResponse ELSE FromHandleError

HandleResponseReturn(i) ==
    /\ invs[i].pc \in {"handle_response", "handle_error"}
    /\ invs' = [invs EXCEPT ![i].pc = "returned",
                            ![i].resp = HandlerResponse(invs[i].pc),
                            ![i].log = Append(@, "return")]
    /\ UNCHANGED <<tunnels, bridges, handler_calls>>
    /\ UNCHANGED norm

AwaitPoints ==
    {"handle_request", "client_request", "handle_response", "handle_error",
     "connect_async"}

\* The accepting server drops the dispatcher future at an await point (the
\* client closed the accepting connection).
Cancel(i) ==
    /\ invs[i].pc \in AwaitPoints
    /\ invs' = [invs EXCEPT ![i].pc = "cancelled", ![i].req = NoRequest]
    /\ UNCHANGED <<tunnels, bridges, handler_calls>>
    /\ UNCHANGED norm

\* Mutant of Respond: dropping the resolved future with its response unwritten
\* aborts the tasks the invocation spawned.
Respond_AbortsTasks(i) ==
    /\ invs[i].pc = "returned"
    /\ \E ok \in BOOLEAN :
        /\ invs' = [invs EXCEPT ![i].pc = IF ok THEN "responded" ELSE "dropped",
                                ![i].req = NoRequest]
        /\ tunnels' = [t \in DOMAIN tunnels |->
                          IF tunnels[t].parent = i /\ ~ok
                          THEN [tunnels[t] EXCEPT !.pc = "done"] ELSE tunnels[t]]
        /\ bridges' = [b \in DOMAIN bridges |->
                          IF bridges[b].parent = i /\ ~ok
                          THEN [bridges[b] EXCEPT !.pc = "done"] ELSE bridges[b]]
    /\ UNCHANGED handler_calls
    /\ UNCHANGED norm

\* The accepting server (hyper) writes the response proxy() resolved with to
\* the client, or fails to because the connection is gone.  The future, and
\* with it the request, is dropped.
Respond(i) ==
    /\ invs[i].pc = "returned"
    /\ \E ok \in BOOLEAN :
        invs' = [invs EXCEPT ![i].pc = IF ok THEN "responded" ELSE "dropped",
                             ![i].req = NoRequest]
    /\ UNCHANGED <<tunnels, bridges, handler_calls>>
    /\ UNCHANGED norm

(***************************************************************************)
(* upgrade_websocket after the outbound dial, and the bridge task.         *)
(***************************************************************************)
ClientToServer == "ClientToServer"
ServerToClient == "ServerToClient"

\* The two sockets of a bridge: the one the proxy accepted from the client
\* (WebSocketStream<Upgraded>) and the one it opened to the origin
\* (WebSocketStream<MaybeTlsStream<TcpStream>>).
AcceptedSocket == "accepted_from_client"
UpstreamSocket == "opened_to_origin"

NewBridge(parent) ==
    [parent |-> parent, pc |-> "websocket_await", upstream |-> "open",
     pumps |-> <<>>]

\* Mutant of connect_async_return: the response of the local server-side
\* upgrade is returned instead of the origin's.
connect_async_return_Fabricated(inv, ok) ==
    IF ok
    THEN [inv |-> [inv EXCEPT !.pc = "returned", !.resp = FabricatedHandshake,
                              !.log = Append2(@, "connect_async:Ok", "spawn_bridge")],
          spawn |-> TRUE]
    ELSE [inv |-> [inv EXCEPT !.pc = "returned", !.resp = bad_request,
                              !.log = Append(@, "connect_async:Err")],
          spawn |-> FALSE]

\* client_fut.await resolves: Err is bad_request(), Ok spawns the bridge task
\* and returns the origin's handshake response.
connect_async_return(inv, ok) ==
    IF ok
    THEN [inv |-> [inv EXCEPT !.pc = "returned", !.resp = OriginHandshake,
                              !.log = Append2(@, "connect_async:Ok", "spawn_bridge")],
          spawn |-> TRUE]
    ELSE [inv |-> [inv EXCEPT !.pc = "returned", !.resp = bad_request,
                              !.log = Append(@, "connect_async:Err")],
          spawn |-> FALSE]

ConnectAsyncReturn(i) ==
    /\ invs[i].pc = "connect_async"
    /\ \E ok \in BOOLEAN :
        LET r == connect_async_return(invs[i], ok) IN
        /\ invs' = [invs EXCEPT ![i] = r.inv]
        /\ IF r.spawn
           THEN /\ Len(bridges) < MaxBridges
                /\ bridges' = Append(bridges, NewBridge(i))
           ELSE UNCHANGED bridges
    /\ UNCHANGED <<tunnels, handler_calls>>
    /\ UNCHANGED norm

\* spawn_message_forwarder(stream, sink, handler, ctx): one pump task, the
\* handler's handle_websocket future.
spawn_message_forwarder(stream, sink, ctx) ==
    [stream |-> stream, sink |-> sink, ctx |-> ctx, pc |-> "running",
     forwarded |-> 0, after_peer_end |-> 0]

\* handle_websocket(server_socket, client_socket, uri): server_socket is the
\* accepted WebSocketStream<Upgraded>, client_socket the outbound socket.
handle_websocket(server_socket, client_socket) ==
    << spawn_message_forwarder(server_socket, client_socket,
           [tag |-> ServerToClient, src |-> "uri", dst |-> "client_addr"]),
       spawn_message_forwarder(client_socket, server_socket,
           [tag |-> ClientToServer, src |-> "client_addr", dst |-> "uri"]) >>

\* Mutant of WebsocketAwait: the failure branch returns without closing
\* client_socket.
WebsocketAwait_LeavesUpstreamOpen(b) ==
    /\ bridges[b].pc = "websocket_await"
    /\ \/ /\ invs[bridges[b].parent].pc = "responded"
          /\ bridges' = [bridges EXCEPT ![b].pc = "done",
                 ![b].pumps = handle_websocket(AcceptedSocket, UpstreamSocket)]
          /\ handler_calls' = [handler_calls EXCEPT !.handle_websocket = @ + 2]
       \/ /\ invs[bridges[b].parent].pc = "dropped"
          /\ bridges' = [bridges EXCEPT ![b].pc = "done"]
          /\ UNCHANGED handler_calls
    /\ UNCHANGED <<invs, tunnels, norm>>

\* The bridge task: websocket.await resolves once the accepting server has
\* written the handshake response; Ok launches the pumps, Err closes
\* client_socket, the socket opened to the origin.
WebsocketAwait(b) ==
    /\ bridges[b].pc = "websocket_await"
    /\ \/ /\ invs[bridges[b].parent].pc = "responded"
          /\ bridges' = [bridges EXCEPT ![b].pc = "done",
                 ![b].pumps = handle_websocket(AcceptedSocket, UpstreamSocket)]
          /\ handler_calls' = [handler_calls EXCEPT !.handle_websocket = @ + 2]
       \/ /\ invs[bridges[b].parent].pc = "dropped"
          /\ bridges' = [bridges EXCEPT ![b].pc = "done", ![b].upstream = "closed"]
          /\ UNCHANGED handler_calls
    /\ UNCHANGED <<invs, tunnels>>
    /\ UNCHANGED norm

Other(k) == 3 - k

\* A pump reads a frame from its stream and sends it to its sink.
PumpForward(b, k) ==
    /\ k \in DOMAIN bridges[b].pumps
    /\ bridges[b].pumps[k].pc = "running"
    /\ bridges[b].pumps[k].forwarded < MaxFrames
    /\ bridges' = [bridges EXCEPT
          ![b].pumps[k].forwarded = @ + 1,
          ![b].pumps[k].after_peer_end =
              IF bridges[b].pumps[Other(k)].pc = "ended" THEN @ + 1 ELSE @]
    /\ UNCHANGED <<invs, tunnels, handler_calls>>
    /\ UNCHANGED norm

\* Mutant of pump_end: the end of one pump aborts the other.
pump_end_Both(pumps, k) == [j \in DOMAIN pumps |-> [pumps[j] EXCEPT !.pc = "ended"]]

\* A pump's handler future completes: its stream ended or its sink failed.
\* Only this task ends; nothing joins or aborts the other one.
pump_end(pumps, k) == [pumps EXCEPT ![k].pc = "ended"]

PumpEnd(b, k) ==
    /\ k \in DOMAIN bridges[b].pumps
    /\ bridges[b].pumps[k].pc = "running"
    /\ bridges' = [bridges EXCEPT ![b].pumps = pump_end(@, k)]
    /\ UNCHANGED <<invs, tunnels, handler_calls>>
    /\ UNCHANGED norm

(***************************************************************************)
(* The tunnel task spawned by process_connect.                             *)
(***************************************************************************)
BufferLen == 4                      \* let mut buffer = [0; 4]
GET_ == <<71, 69, 84, 32>>          \* b"GET "
TLS_ == <<22, 3>>                   \* b"\x16\x03"

\* Byte streams a client may send into the tunnel after the CONNECT.
ClientStreams ==
    { <<>>,
      <<71, 69, 84, 32, 47>>,       \* "GET /"
      <<71, 69, 84>>,               \* "GET", then end of stream
      <<22, 3, 1, 0, 5>>,           \* a TLS record header
      <<22, 3>>,
      <<22, 2, 1, 0>>,
      <<80, 79, 83, 84, 32>> }      \* "POST "

Min(a, b) == IF a < b THEN a ELSE b

\* What one read into a 4-byte buffer may return: 0 at end of stream, else
\* any number of bytes from 1 up to what is there and fits.
ReadLengths(stream) ==
    IF stream = <<>> THEN {0} ELSE 1..Min(BufferLen, Len(stream))

\* Mutant of ReadInto: the read fills the buffer with what the client has
\* sent, whatever count it returns.
ReadInto_FillsBuffer(stream, n) ==
    [k \in 1..BufferLen |-> IF k <= Len(stream) THEN stream[k] ELSE 0]

\* The buffer after upgraded.read(&mut buffer) returned n: the bytes read in
\* front, the zeros it was initialised with behind.
ReadInto(stream, n) == [k \in 1..BufferLen |-> IF k <= n THEN stream[k] ELSE 0]

\* Mutant of RewindPrefix: the whole buffer is handed to the Rewind stream.
RewindPrefix_WholeBuffer(buffer, bytes_read) == buffer

\* Rewind::new_buffered(upgraded, copy_from_slice(buffer[..bytes_read])): the
\* pre-buffer of the Rewind stream.
RewindPrefix(buffer, bytes_read) == SubSeq(buffer, 1, bytes_read)

\* One read of at most n bytes from a Rewind stream: the pre-buffer first,
\* consuming it, then the underlying stream.
RewindRead(tun, n) ==
    IF tun.rewind # <<>>
    THEN [data |-> tun.rewind, rewind |-> <<>>, offset |-> tun.offset]
    ELSE [data |-> SubSeq(tun.stream, tun.offset + 1, tun.offset + n),
          rewind |-> <<>>, offset |-> tun.offset + n]

\* Mutant of UpgradeFulfilled: the task does not await the upgrade.
UpgradeNotAwaited(t) ==
    invs[tunnels[t].parent].pc \in {"returned", "responded"}

\* hyper::upgrade::on(&mut req).await: the upgrade is fulfilled when the
\* accepting server has written the response of the CONNECT.
UpgradeFulfilled(t) == invs[tunnels[t].parent].pc = "responded"

UpgradeOn(t) ==
    /\ tunnels[t].pc = "upgrade_on"
    /\ \/ /\ UpgradeFulfilled(t)
          /\ tunnels' = [tunnels EXCEPT ![t].pc = "read",
                                        ![t].log = Append(@, "upgraded")]
       \/ /\ invs[tunnels[t].parent].pc = "dropped"
          /\ tunnels' = [tunnels EXCEPT ![t].pc = "done",
                                        ![t].log = Append(@, "upgrade:Err")]
    /\ UNCHANGED <<invs, bridges, handler_calls>>
    /\ UNCHANGED norm

\* upgraded.read(&mut buffer).await resolves; Ok goes on to call
\* should_intercept, Err ends the task.  A read of 0 bytes is the end of the
\* client's stream.
SniffRead(t) ==
    /\ tunnels[t].pc = "read"
    /\ \/ /\ \E stream \in ClientStreams : \E n \in ReadLengths(stream) :
                tunnels' = [tunnels EXCEPT
                    ![t].pc = "should_intercept",
                    ![t].stream = stream,
                    ![t].buffer = ReadInto(stream, n),
                    ![t].bytes_read = n,
                    ![t].offset = n,
                    ![t].client_eof = (n = 0),
                    ![t].rewind = RewindPrefix(ReadInto(stream, n), n),
                    ![t].log = Append2(@, "read:Ok", "should_intercept")]
          /\ handler_calls' = [handler_calls EXCEPT !.should_intercept = @ + 1]
       \/ /\ tunnels' = [tunnels EXCEPT ![t].pc = "done",
                                        ![t].log = Append(@, "read:Err")]
          /\ UNCHANGED handler_calls
    /\ UNCHANGED <<invs, bridges>>
    /\ UNCHANGED norm

\* Mutant of Sniff: the intercept predicate's answer is not looked at.
Sniff_IgnoresIntercept(intercept, buffer) ==
    IF buffer = GET_ THEN "plaintext_mitm"
    ELSE IF SubSeq(buffer, 1, 2) = TLS_ THEN "tls_mitm"
    ELSE "blind"

\* Lines 147-196: the demultiplexer's decision on the buffer.
Sniff(intercept, buffer) ==
    IF intercept
    THEN IF buffer = GET_ THEN "plaintext_mitm"
         ELSE IF SubSeq(buffer, 1, 2) = TLS_ THEN "tls_mitm"
         ELSE "blind"
    ELSE "blind"

\* Mutant of AfterSniff: a connection the predicate declines is closed
\* instead of tunnelled.
AfterSniff_ClosesOnFalse(tun, intercept) ==
    LET route == Sniff(intercept, tun.buffer)
        t1 == [tun EXCEPT !.intercept = IF intercept THEN "true" ELSE "false",
                          !.route = route]
    IN  CASE route = "plaintext_mitm" ->
                [t1 EXCEPT !.pc = "serving", !.scheme = "http",
                           !.log = Append(@, "serve_stream")]
          [] route = "tls_mitm" ->
                [t1 EXCEPT !.pc = "tls_accept",
                           !.log = Append2(@, "gen_server_config", "tls_accept")]
          [] intercept ->
                [t1 EXCEPT !.pc = "connect", !.log = Append(@, "connect")]
          [] OTHER ->
                [t1 EXCEPT !.pc = "done"]

\* should_intercept resolves; the task goes to serve_stream with scheme http,
\* to the TLS acceptor, or to TcpStream::connect.
AfterSniff(tun, intercept) ==
    LET route == Sniff(intercept, tun.buffer)
        t1 == [tun EXCEPT !.intercept = IF intercept THEN "true" ELSE "false",
                          !.route = route]
    IN  CASE route = "plaintext_mitm" ->
                [t1 EXCEPT !.pc = "serving", !.scheme = "http",
                           !.log = Append(@, "serve_stream")]
          [] route = "tls_mitm" ->
                [t1 EXCEPT !.pc = "tls_accept",
                           !.log = Append2(@, "gen_server_config", "tls_accept")]
          [] OTHER ->
                [t1 EXCEPT !.pc = "connect", !.log = Append(@, "connect")]

ShouldInterceptReturn(t) ==
    /\ tunnels[t].pc = "should_intercept"
    /\ \E intercept \in BOOLEAN :
        tunnels' = [tunnels EXCEPT ![t] = AfterSniff(tunnels[t], intercept)]
    /\ UNCHANGED <<invs, bridges, handler_calls>>
    /\ UNCHANGED norm

\* Mutant of tls_accept_return: a failed handshake falls through to the
\* blind tunnel.
tls_accept_return_FallsThrough(tun, ok) ==
    IF ok
    THEN [tun EXCEPT !.pc = "serving", !.scheme = "https",
                     !.log = Append2(@, "tls_accept:Ok", "serve_stream")]
    ELSE [tun EXCEPT !.pc = "connect",
                     !.log = Append2(@, "tls_accept:Err", "connect")]

\* TlsAcceptor::accept resolves: Ok serves the stream with scheme https, Err
\* returns from the task.
tls_accept_return(tun, ok) ==
    IF ok
    THEN [tun EXCEPT !.pc = "serving", !.scheme = "https",
                     !.log = Append2(@, "tls_accept:Ok", "serve_stream")]
    ELSE [tun EXCEPT !.pc = "done", !.log = Append(@, "tls_accept:Err")]

TlsAccept(t) ==
    /\ tunnels[t].pc = "tls_accept"
    /\ \E ok \in BOOLEAN :
        tunnels' = [tunnels EXCEPT ![t] = tls_accept_return(tunnels[t], ok)]
    /\ UNCHANGED <<invs, bridges, handler_calls>>
    /\ UNCHANGED norm

\* Byte streams the upstream server may send into the tunnel.
UpstreamStreams == { <<72, 84>> }

\* TcpStream::connect(authority) resolves: Ok starts copy_bidirectional, Err
\* returns from the task.
TcpConnect(t) ==
    /\ tunnels[t].pc = "connect"
    /\ \/ \E upstream \in UpstreamStreams :
            tunnels' = [tunnels EXCEPT
                ![t].pc = "copy", ![t].upstream = upstream,
                ![t].log = Append2(@, "connect:Ok", "copy_bidirectional")]
       \/ tunnels' = [tunnels EXCEPT ![t].pc = "done",
                                     ![t].log = Append(@, "connect:Err")]
    /\ UNCHANGED <<invs, bridges, handler_calls>>
    /\ UNCHANGED norm

\* copy_bidirectional(&mut upgraded, &mut server), client to upstream: one
\* read from the Rewind stream, of all the client has sent, written to the
\* upstream socket.
CopyUp(t) ==
    /\ tunnels[t].pc = "copy"
    /\ tunnels[t].rewind # <<>> \/ tunnels[t].offset < Len(tunnels[t].stream)
    /\ LET r == RewindRead(tunnels[t], Len(tunnels[t].stream) - tunnels[t].offset) IN
        tunnels' = [tunnels EXCEPT ![t].rewind = r.rewind,
                                   ![t].offset = r.offset,
                                   ![t].to_upstream = @ \o r.data]
    /\ UNCHANGED <<invs, bridges, handler_calls>>
    /\ UNCHANGED norm

\* copy_bidirectional, upstream to client: one read from the upstream socket,
\* written to the Rewind stream, whose writes pass through to the client.
CopyDown(t) ==
    /\ tunnels[t].pc = "copy"
    /\ Len(tunnels[t].to_client) < Len(tunnels[t].upstream)
    /\ LET at == Len(tunnels[t].to_client) IN
        tunnels' = [tunnels EXCEPT
            ![t].to_client = @ \o SubSeq(tunnels[t].upstream, at + 1,
                                         Len(tunnels[t].upstream))]
    /\ UNCHANGED <<invs, bridges, handler_calls>>
    /\ UNCHANGED norm

\* The client has shut down its sending side: after the last byte it sent,
\* the copy's read from the Rewind stream returns 0.
ClientClose(t) ==
    /\ tunnels[t].pc = "copy"
    /\ tunnels[t].rewind = <<>> /\ tunnels[t].offset = Len(tunnels[t].stream)
    /\ ~tunnels[t].client_eof
    /\ tunnels' = [tunnels EXCEPT ![t].client_eof = TRUE]
    /\ UNCHANGED <<invs, bridges, handler_calls>>
    /\ UNCHANGED norm

\* The upstream server has shut down its sending side: after its last byte,
\* the copy's read from the upstream socket returns 0.
UpstreamClose(t) ==
    /\ tunnels[t].pc = "copy"
    /\ Len(tunnels[t].to_client) = Len(tunnels[t].upstream)
    /\ ~tunnels[t].upstream_eof
    /\ tunnels' = [tunnels EXCEPT ![t].upstream_eof = TRUE]
    /\ UNCHANGED <<invs, bridges, handler_calls>>
    /\ UNCHANGED norm

\* Mutant of CopyComplete: the copy is over as soon as one direction has
\* reached the end of its stream.
CopyComplete_EitherSide(tun) == tun.client_eof \/ tun.upstream_eof

\* Both directions of the copy have reached the end of their stream: a read
\* of each has returned 0.
CopyComplete(tun) == tun.client_eof /\ tun.upstream_eof

\* The task returns after the copy: the Rewind stream and the upstream socket
\* are dropped.
DropSockets(tun) ==
    [tun EXCEPT !.pc = "done", !.rewind = <<>>, !.offset = 0,
                !.to_upstream = <<>>, !.upstream = <<>>, !.to_client = <<>>,
                !.client_eof = FALSE, !.upstream_eof = FALSE]

\* copy_bidirectional resolves with Ok: both directions are through.
CopyEndOk(t) ==
    /\ tunnels[t].pc = "copy"
    /\ CopyComplete(tunnels[t])
    /\ tunnels' = [tunnels EXCEPT
          ![t] = [DropSockets(@) EXCEPT !.log = Append(@, "copy:Ok")]]
    /\ UNCHANGED <<invs, bridges, handler_calls>>
    /\ UNCHANGED norm

\* copy_bidirectional resolves with Err: a transport error, at any time.
CopyEndErr(t) ==
    /\ tunnels[t].pc = "copy"
    /\ tunnels' = [tunnels EXCEPT
          ![t] = [DropSockets(@) EXCEPT !.log = Append(@, "copy:Err")]]
    /\ UNCHANGED <<invs, bridges, handler_calls>>
    /\ UNCHANGED norm

CopyEnd(t) == CopyEndOk(t) \/ CopyEndErr(t)

(***************************************************************************)
(* serve_stream: the inner HTTP server of a MITM'd tunnel.                 *)
(***************************************************************************)
\* The service closure's URI rewrite for HTTP/1.0 and HTTP/1.1 requests.
ServiceUri(req, scheme, authority) ==
    IF req.version \in {"HTTP/1.0", "HTTP/1.1"}
    THEN [req.uri EXCEPT !.scheme = scheme, !.authority = authority]
    ELSE req.uri

\* Dropping the connection future drops the service futures it still holds,
\* and the responses it has not written yet.
DropServiceFutures(t) ==
    [i \in DOMAIN invs |->
        IF invs[i].origin = t /\ invs[i].pc \in AwaitPoints
        THEN [invs[i] EXCEPT !.pc = "cancelled", !.req = NoRequest]
        ELSE IF invs[i].origin = t /\ invs[i].pc = "returned"
        THEN [invs[i] EXCEPT !.pc = "dropped", !.req = NoRequest]
        ELSE invs[i]]

\* The inner server parsed a request: the closure rewrites its URI and calls
\* proxy(); Uri::from_parts(..).expect(..) panics the task when it fails.
ServeRequest(t) ==
    /\ tunnels[t].pc = "serving"
    /\ \E req \in Requests :
        LET uri == ServiceUri(req, tunnels[t].scheme, tunnels[t].authority) IN
        IF FromPartsOk(uri)
        THEN /\ Proxy(t, [req EXCEPT !.uri = uri])
             /\ tunnels' = [tunnels EXCEPT ![t].log = Append(@, "request")]
        ELSE /\ tunnels' = [tunnels EXCEPT ![t].pc = "done",
                                           ![t].log = Append2(@, "request", "panic")]
             /\ invs' = DropServiceFutures(t)
             /\ UNCHANGED handler_calls
    /\ UNCHANGED bridges
    /\ UNCHANGED norm

\* serve_connection(..).await resolves: the tunnelled connection is over.
ServeEnd(t) ==
    /\ tunnels[t].pc = "serving"
    /\ tunnels' = [tunnels EXCEPT ![t].pc = "done",
                                  ![t].log = Append(@, "serve_stream:end")]
    /\ invs' = DropServiceFutures(t)
    /\ UNCHANGED <<bridges, handler_calls>>
    /\ UNCHANGED norm

(***************************************************************************)
(* The specification.                                                      *)
(***************************************************************************)
Next ==
    \/ Accept
    \/ \E i \in DOMAIN invs : HandleRequestResponse(i)
    \/ \E i \in DOMAIN invs : HandleRequestRequest(i)
    \/ \E i \in DOMAIN invs : ClientRequestReturn(i)
    \/ \E i \in DOMAIN invs : HandleResponseReturn(i)
    \/ \E i \in DOMAIN invs : ConnectAsyncReturn(i)
    \/ \E i \in DOMAIN invs : Cancel(i)
    \/ \E i \in DOMAIN invs : Respond(i)
    \/ \E t \in DOMAIN tunnels : UpgradeOn(t)
    \/ \E t \in DOMAIN tunnels : SniffRead(t)
    \/ \E t \in DOMAIN tunnels : ShouldInterceptReturn(t)
    \/ \E t \in DOMAIN tunnels : TlsAccept(t)
    \/ \E t \in DOMAIN tunnels : TcpConnect(t)
    \/ \E t \in DOMAIN tunnels : CopyUp(t)
    \/ \E t \in DOMAIN tunnels : CopyDown(t)
    \/ \E t \in DOMAIN tunnels : ClientClose(t)
    \/ \E t \in DOMAIN tunnels : UpstreamClose(t)
    \/ \E t \in DOMAIN tunnels : CopyEnd(t)
    \/ \E t \in DOMAIN tunnels : ServeRequest(t)
    \/ \E t \in DOMAIN tunnels : ServeEnd(t)
    \/ \E b \in DOMAIN bridges : WebsocketAwait(b)
    \/ \E b \in DOMAIN bridges : \E k \in {1, 2} : PumpForward(b, k)
    \/ \E b \in DOMAIN bridges : \E k \in {1, 2} : PumpEnd(b, k)

Spec == Init /\ [][Next]_vars

(***************************************************************************)
(* normalize_request on its own: applied once to any request of a larger   *)
(* set, with up to MaxCookies Cookie values and with or without Host.      *)
(***************************************************************************)
CookieValues == { <<>>, CookieA, CookieB }

SeqsUpTo(S, n) == UNION { [1..k -> S] : k \in 0..n }

NormRequests ==
    { [method |-> "GET",
       uri |-> [scheme |-> "http", authority |-> Authority, path |-> TRUE],
       upgrade |-> FALSE, wsKey |-> FALSE, version |-> v,
       headers |-> [host |-> h, cookie |-> c]] :
        v \in Versions, h \in {<<>>, <<Authority>>},
        c \in SeqsUpTo(CookieValues, MaxCookies) }

NormInit ==
    /\ invs = <<>>
    /\ tunnels = <<>>
    /\ bridges = <<>>
    /\ handler_calls = [handle_request |-> 0, handle_response |-> 0,
                        handle_error |-> 0, should_intercept |-> 0,
                        handle_websocket |-> 0]
    /\ norm \in { [pc |-> "argument", req |-> r, out |-> NoRequest] :
                   r \in NormRequests }

Normalize ==
    /\ norm.pc = "argument"
    /\ norm' = [norm EXCEPT !.pc = "normalized",
                            !.out = normalize_request(norm.req)]
    /\ UNCHANGED <<invs, tunnels, bridges, handler_calls>>

NormNext == Normalize

NormSpec == NormInit /\ [][NormNext]_vars

(***************************************************************************)
(* The tunnel task on its own, from the moment the accepting server has    *)
(* dealt with the response of its CONNECT: written it, or dropped it with  *)
(* the connection gone.  The task's steps are the ones above; no request   *)
(* arrives inside a served stream.  The runtime polls the task whenever    *)
(* its copy can move a byte or can resolve with Ok; nothing obliges a peer *)
(* to close or a transport to fail.                                        *)
(***************************************************************************)
AnsweredConnect(pc) ==
    [origin |-> 0, req |-> NoRequest, pc |-> pc, resp |-> EmptyResponse,
     log |-> <<"handle_request", "handle_request:Request",
               "process_connect", "spawn_tunnel">>]

TunnelInit ==
    /\ \E pc \in {"responded", "dropped"} : invs = <<AnsweredConnect(pc)>>
    /\ tunnels = <<NewTunnel(1, Authority)>>
    /\ bridges = <<>>
    /\ handler_calls = [handle_request |-> 1, handle_response |-> 0,
                        handle_error |-> 0, should_intercept |-> 0,
                        handle_websocket |-> 0]
    /\ norm = NormIdle

TunnelNext ==
    \/ \E t \in DOMAIN tunnels : UpgradeOn(t)
    \/ \E t \in DOMAIN tunnels : SniffRead(t)
    \/ \E t \in DOMAIN tunnels : ShouldInterceptReturn(t)
    \/ \E t \in DOMAIN tunnels : TlsAccept(t)
    \/ \E t \in DOMAIN tunnels : TcpConnect(t)
    \/ \E t \in DOMAIN tunnels : CopyUp(t)
    \/ \E t \in DOMAIN tunnels : CopyDown(t)
    \/ \E t \in DOMAIN tunnels : ClientClose(t)
    \/ \E t \in DOMAIN tunnels : UpstreamClose(t)
    \/ \E t \in DOMAIN tunnels : CopyEnd(t)
    \/ \E t \in DOMAIN tunnels : ServeEnd(t)

TunnelFairness ==
    /\ WF_vars(\E t \in DOMAIN tunnels : CopyUp(t))
    /\ WF_vars(\E t \in DOMAIN tunnels : CopyDown(t))
    /\ WF_vars(\E t \in DOMAIN tunnels : CopyEndOk(t))

TunnelSpec == TunnelInit /\ [][TunnelNext]_vars /\ TunnelFairness

(***************************************************************************)
(* Vocabulary of the properties.                                           *)
(***************************************************************************)
Completed == {"returned", "responded", "dropped"}

\* Position of the first occurrence of e in s, 0 when there is none.
Pos(s, e) ==
    IF Has(s, e)
    THEN CHOOSE k \in 1..Len(s) : s[k] = e /\ \A j \in 1..(k - 1) : s[j] # e
    ELSE 0

\* The bytes the first read returned.
Prefix(tun) == SubSeq(tun.stream, 1, tun.bytes_read)

TunnelsOf(i) == {t \in DOMAIN tunnels : tunnels[t].parent = i}
BridgesOf(i) == {b \in DOMAIN bridges : bridges[b].parent = i}

SendsOk  == {i \in DOMAIN invs : Has(invs[i].log, "client.request:Ok")}
SendsErr == {i \in DOMAIN invs : Has(invs[i].log, "client.request:Err")}

(***************************************************************************)
(* C1: once the first read has returned and should_intercept has answered: *)
(* with intercept true, the prefix "GET " is served by serve_stream with   *)
(* scheme http and neither TLS nor a dial; a prefix starting 0x16 0x03     *)
(* goes to the TLS acceptor and, once accepted, to serve_stream with       *)
(* scheme https, never to a dial; every other prefix goes to the dial of   *)
(* the blind tunnel.  With intercept false every prefix goes to the dial.  *)
(***************************************************************************)
PlaintextMitm(tun) ==
    /\ Has(tun.log, "serve_stream") /\ tun.scheme = "http"
    /\ ~Has(tun.log, "tls_accept") /\ ~Has(tun.log, "connect")

TlsMitm(tun) ==
    /\ Has(tun.log, "tls_accept") /\ ~Has(tun.log, "connect")
    /\ Has(tun.log, "tls_accept:Ok") <=> Has(tun.log, "serve_stream")
    /\ Has(tun.log, "serve_stream") => tun.scheme = "https"
    /\ tun.pc = "tls_accept" \/ Has(tun.log, "tls_accept:Ok")
                             \/ Has(tun.log, "tls_accept:Err")

BlindTunnel(tun) ==
    /\ Has(tun.log, "connect") /\ tun.scheme = NoScheme
    /\ ~Has(tun.log, "serve_stream") /\ ~Has(tun.log, "tls_accept")

C1_SniffDispatch ==
    \A t \in DOMAIN tunnels :
        LET tun == tunnels[t]
            p == Prefix(tun)
        IN  tun.intercept # "unknown" =>
              IF tun.intercept = "true" /\ p = GET_ THEN PlaintextMitm(tun)
              ELSE IF tun.intercept = "true" /\ Len(p) >= 2 /\ SubSeq(p, 1, 2) = TLS_
                   THEN TlsMitm(tun)
              ELSE BlindTunnel(tun)

C1_Witness ==
    \E t \in DOMAIN tunnels :
        /\ tunnels[t].intercept = "true"
        /\ tunnels[t].bytes_read >= 2
        /\ SubSeq(Prefix(tunnels[t]), 1, 2) = TLS_
        /\ tunnels[t].pc = "serving" /\ tunnels[t].scheme = "https"

(***************************************************************************)
(* C2 as stated: after N successfully forwarded transactions, the CONNECT  *)
(* of a MITM'd tunnel that carried them included, and nothing else,        *)
(* handle_request has been called exactly N times.                         *)
(***************************************************************************)
OnlyForwardsAndTheirTunnels ==
    \A i \in DOMAIN invs :
        \/ i \in SendsOk /\ invs[i].pc \in Completed
        \/ /\ Has(invs[i].log, "spawn_tunnel") /\ invs[i].pc = "responded"
           /\ \E j \in SendsOk : invs[j].origin \in TunnelsOf(i)

C2_Original ==
    (Cardinality(SendsOk) >= 1 /\ OnlyForwardsAndTheirTunnels) =>
        /\ handler_calls.handle_request = Cardinality(SendsOk)
        /\ handler_calls.handle_response = Cardinality(SendsOk)

(***************************************************************************)
(* C2 amended: handle_response has been called exactly once per successful *)
(* outbound send and handle_error exactly once per failed one, and         *)
(* handle_request exactly once per dispatcher invocation: once for each    *)
(* forwarded transaction and once more for every other request dispatched  *)
(* (the CONNECT that set up the tunnel, upgrades, short-circuited ones).   *)
(***************************************************************************)
C2_HandlerCallCounts ==
    /\ handler_calls.handle_response = Cardinality(SendsOk)
    /\ handler_calls.handle_error = Cardinality(SendsErr)
    /\ handler_calls.handle_request = Len(invs)
    /\ handler_calls.handle_request >= Cardinality(SendsOk) + Cardinality(SendsErr)
    /\ \A i \in DOMAIN invs : Count(invs[i].log, "handle_request") = 1

C2_Witness ==
    \E i \in SendsOk :
        /\ invs[i].origin # 0 /\ invs[i].pc = "responded"
        /\ handler_calls.handle_response = 1
        /\ handler_calls.handle_request = 2

(***************************************************************************)
(* C3: in a forwarded request handle_request has returned before the send  *)
(* starts, the send has resolved before handle_response or handle_error is *)
(* called, and after the send resolved exactly one of the two is called:   *)
(* handle_response if it succeeded, handle_error if it failed.             *)
(***************************************************************************)
C3_ForwardOrder ==
    \A i \in DOMAIN invs :
        LET log == invs[i].log
            sent == Has(log, "client.request:Ok") \/ Has(log, "client.request:Err")
        IN  Has(log, "client.request") =>
              /\ Count(log, "client.request") = 1
              /\ 0 < Pos(log, "handle_request:Request")
              /\ Pos(log, "handle_request:Request") < Pos(log, "client.request")
              /\ ~sent => ~Has(log, "handle_response") /\ ~Has(log, "handle_error")
              /\ sent =>
                    /\ Count(log, "handle_response") + Count(log, "handle_error") = 1
                    /\ Has(log, "client.request:Ok") <=> Has(log, "handle_response")
                    /\ Has(log, "client.request:Err") <=> Has(log, "handle_error")
                    /\ Pos(log, "client.request") < Pos(log, "client.request:Ok")
                                                  + Pos(log, "client.request:Err")
                    /\ Pos(log, "client.request:Ok") + Pos(log, "client.request:Err")
                          < Pos(log, "handle_response") + Pos(log, "handle_error")
              /\ invs[i].pc \in Completed => sent

C3_Witness ==
    \E i \in SendsErr :
        /\ invs[i].pc = "returned" /\ invs[i].resp = FromHandleError
        /\ Has(invs[i].log, "handle_error")

(***************************************************************************)
(* C4: a CONNECT with an authority resolves with the empty response while  *)
(* its tunnel task is still waiting, and the task gets past the upgrade    *)
(* (sniff read, TLS accept, dial, copy) only after that response has been  *)
(* written to the client.                                                  *)
(***************************************************************************)
C4_ShellBeforeTunnelBytes ==
    /\ \A i \in DOMAIN invs :
          Has(invs[i].log, "spawn_tunnel") =>
              invs[i].pc \in Completed /\ invs[i].resp = EmptyResponse
    /\ \A t \in DOMAIN tunnels :
          /\ Has(invs[tunnels[t].parent].log, "spawn_tunnel")
          /\ Has(tunnels[t].log, "upgraded") =>
                invs[tunnels[t].parent].pc = "responded"
          /\ tunnels[t].pc \notin {"upgrade_on", "done"} =>
                Has(tunnels[t].log, "upgraded")

C4_Witness ==
    \E t \in DOMAIN tunnels :
        /\ tunnels[t].pc = "copy"
        /\ invs[tunnels[t].parent].pc = "responded"
        /\ invs[tunnels[t].parent].resp = EmptyResponse

(***************************************************************************)
(* C5: when handle_request returns a response, the dispatcher resolves     *)
(* with that response and does nothing else for the request: no send, no   *)
(* handle_response, no handle_error, no dial, no task, whatever the        *)
(* request was.                                                            *)
(***************************************************************************)
C5_ShortCircuit ==
    \A i \in DOMAIN invs :
        Has(invs[i].log, "handle_request:Response") =>
            /\ invs[i].log = <<"handle_request", "handle_request:Response">>
            /\ invs[i].pc \in Completed
            /\ invs[i].resp = FromHandleRequest
            /\ TunnelsOf(i) = {} /\ BridgesOf(i) = {}

C5_Witness ==
    \E i \in DOMAIN invs :
        /\ invs[i].pc = "returned" /\ invs[i].resp = FromHandleRequest
        /\ invs[i].req.method = "CONNECT"
        /\ invs[i].req.uri.authority # NoAuthority
        /\ invs[i].req.upgrade /\ invs[i].req.wsKey

(***************************************************************************)
(* C6: a CONNECT whose URI has no authority resolves with 400; no tunnel   *)
(* task exists for it, so should_intercept is not called and nothing is    *)
(* dialed for it.                                                          *)
(***************************************************************************)
C6_ConnectWithoutAuthority ==
    /\ \A i \in DOMAIN invs :
          /\ invs[i].pc = "returned"
                /\ Has(invs[i].log, "process_connect")
                /\ invs[i].req.uri.authority = NoAuthority =>
                    /\ invs[i].resp = BadRequest
                    /\ ~Has(invs[i].log, "spawn_tunnel")
                    /\ TunnelsOf(i) = {}
          /\ invs[i].resp = BadRequest => TunnelsOf(i) = {}
    /\ handler_calls.should_intercept =
          Cardinality({t \in DOMAIN tunnels : Has(tunnels[t].log, "should_intercept")})

C6_Witness ==
    \E i \in DOMAIN invs :
        /\ invs[i].pc = "returned" /\ invs[i].req.method = "CONNECT"
        /\ invs[i].req.uri.authority = NoAuthority
        /\ invs[i].resp = BadRequest

(***************************************************************************)
(* C7: upgrade_websocket resolves with 400 when the URI has no authority   *)
(* and when the Sec-WebSocket-Key / Sec-WebSocket-Version headers are      *)
(* absent; in both cases nothing is dialed and no bridge task is spawned.  *)
(***************************************************************************)
C7_UpgradePreconditions ==
    \A i \in DOMAIN invs :
        /\ invs[i].pc = "returned"
              /\ Has(invs[i].log, "upgrade_websocket")
              /\ (invs[i].req.uri.authority = NoAuthority \/ ~invs[i].req.wsKey) =>
                  /\ invs[i].resp = BadRequest
                  /\ ~Has(invs[i].log, "connect_async")
                  /\ BridgesOf(i) = {}
        /\ Has(invs[i].log, "upgrade_websocket") /\ invs[i].resp = BadRequest =>
              BridgesOf(i) = {}

C7_Witness ==
    \E i \in DOMAIN invs :
        /\ invs[i].pc = "returned" /\ Has(invs[i].log, "upgrade_websocket")
        /\ invs[i].req.uri.authority # NoAuthority /\ ~invs[i].req.wsKey
        /\ invs[i].resp = BadRequest

(***************************************************************************)
(* C8 as stated: every completed invocation resolved with an empty, a 400  *)
(* or a handler-produced response.                                         *)
(***************************************************************************)
HandlerProduced == {FromHandleRequest, FromHandleResponse, FromHandleError}

C8_Original ==
    \A i \in DOMAIN invs :
        invs[i].pc \in Completed =>
            invs[i].resp \in {EmptyResponse, BadRequest} \cup HandlerProduced

(***************************************************************************)
(* C8 amended: every completed invocation resolved with a response, never  *)
(* an error: an empty response, a 400, a handler-produced response, or,    *)
(* after a successful WebSocket dial, the origin's handshake response.     *)
(***************************************************************************)
C8_AlwaysAResponse ==
    \A i \in DOMAIN invs :
        /\ invs[i].pc \in Completed =>
              invs[i].resp \in {EmptyResponse, BadRequest, OriginHandshake}
                               \cup HandlerProduced
        /\ invs[i].pc \notin Completed => invs[i].resp = NoResponse
        /\ invs[i].resp = OriginHandshake <=> Has(invs[i].log, "connect_async:Ok")
        /\ Has(invs[i].log, "connect_async:Err") => invs[i].resp = BadRequest
        /\ Has(invs[i].log, "client.request:Err") /\ invs[i].pc \in Completed =>
              invs[i].resp = FromHandleError

C8_Witness ==
    \E i, j \in DOMAIN invs :
        /\ invs[i].pc \in Completed /\ invs[i].resp = OriginHandshake
        /\ invs[j].pc \in Completed /\ invs[j].resp = FromHandleError

(***************************************************************************)
(* C9: the pump tagged server-to-client reads the socket opened to the     *)
(* origin and writes the socket accepted from the client; the pump tagged  *)
(* client-to-server reads the accepted socket and writes the origin's; the *)
(* context's src and dst name the ends the frames flow between.            *)
(***************************************************************************)
EndOf(socket) == IF socket = UpstreamSocket THEN "uri" ELSE "client_addr"

C9_PumpDirections ==
    \A b \in DOMAIN bridges : \A k \in DOMAIN bridges[b].pumps :
        LET pump == bridges[b].pumps[k] IN
        /\ pump.ctx.tag = ServerToClient =>
              pump.stream = UpstreamSocket /\ pump.sink = AcceptedSocket
        /\ pump.ctx.tag = ClientToServer =>
              pump.stream = AcceptedSocket /\ pump.sink = UpstreamSocket
        /\ pump.ctx.src = EndOf(pump.stream) /\ pump.ctx.dst = EndOf(pump.sink)

(***************************************************************************)
(* C10: a step in which one pump ends leaves the other pump of the bridge  *)
(* as it was, running if it was running, and no step but a pump's own end  *)
(* ends it.                                                                *)
(***************************************************************************)
C10_PumpsIndependent ==
    [][\A b \in DOMAIN bridges : \A k \in DOMAIN bridges[b].pumps :
          (bridges[b].pumps[k].pc = "running" /\ bridges'[b].pumps[k].pc = "ended")
              => bridges'[b].pumps[Other(k)] = bridges[b].pumps[Other(k)]]_vars

C10_Witness ==
    \E b \in DOMAIN bridges : \E k \in DOMAIN bridges[b].pumps :
        /\ bridges[b].pumps[k].pc = "ended"
        /\ bridges[b].pumps[k].forwarded = 0
        /\ bridges[b].pumps[Other(k)].pc = "running"
        /\ bridges[b].pumps[Other(k)].after_peer_end >= 1

(***************************************************************************)
(* C11: a step that drops a dispatcher future, at an await point or with   *)
(* its response unwritten, leaves every tunnel task and bridge task that   *)
(* invocation spawned, its frame pumps included, exactly as it was: the    *)
(* tasks move only by their own steps.                                     *)
(***************************************************************************)
Gone == {"cancelled", "dropped"}

C11_SpawnedTasksOutliveDispatcher ==
    [][\A i \in DOMAIN invs :
          (invs[i].pc \notin Gone /\ invs'[i].pc \in Gone) =>
              /\ \A t \in TunnelsOf(i) : tunnels'[t] = tunnels[t]
              /\ \A b \in BridgesOf(i) : bridges'[b] = bridges[b]]_vars

C11_Witness ==
    \E t \in DOMAIN tunnels :
        /\ invs[tunnels[t].parent].pc = "dropped"
        /\ tunnels[t].pc = "done"
        /\ tunnels[t].log = <<"upgrade:Err">>

(***************************************************************************)
(* C12: an upgrade request that passed the URI rewrite and the server-side *)
(* upgrade is dialed; when the dial fails the invocation resolves with 400 *)
(* and no bridge task exists for it; when it succeeds the invocation       *)
(* resolves with the origin's handshake response and one bridge task is    *)
(* spawned; the fabricated response is never returned.                     *)
(***************************************************************************)
WellFormedUpgrade(req) ==
    /\ req.method # "CONNECT" /\ req.upgrade /\ req.wsKey
    /\ req.uri.authority # NoAuthority /\ req.uri.path

C12_UpgradeResponse ==
    \A i \in DOMAIN invs :
        LET log == invs[i].log IN
        /\ invs[i].resp # FabricatedHandshake
        /\ Has(log, "connect_async:Err") =>
              /\ invs[i].resp = BadRequest
              /\ ~Has(log, "spawn_bridge") /\ BridgesOf(i) = {}
        /\ Has(log, "connect_async:Ok") =>
              /\ invs[i].resp = OriginHandshake
              /\ Cardinality(BridgesOf(i)) = 1
        /\ invs[i].pc = "returned" /\ Has(log, "upgrade_websocket")
              /\ WellFormedUpgrade(invs[i].req) =>
                  Has(log, "connect_async:Ok") \/ Has(log, "connect_async:Err")

C12_Witness ==
    \E i \in DOMAIN invs :
        /\ invs[i].pc = "returned" /\ WellFormedUpgrade(invs[i].req)
        /\ Has(invs[i].log, "connect_async:Ok")
        /\ invs[i].resp = OriginHandshake /\ BridgesOf(i) # {}

(***************************************************************************)
(* C13: in the blind tunnel the bytes written to the upstream socket are   *)
(* at every moment the first bytes of what the client sent after the       *)
(* CONNECT, from offset zero and in order, the sniffed bytes first and     *)
(* only those the read returned; the bytes written to the client are the   *)
(* first bytes of what upstream sent; when both directions of the copy     *)
(* are through, both are the whole streams.                                *)
(***************************************************************************)
IsPrefix(a, b) == Len(a) <= Len(b) /\ \A k \in 1..Len(a) : a[k] = b[k]

C13_BlindTunnelVerbatim ==
    \A t \in DOMAIN tunnels :
        LET tun == tunnels[t] IN
        /\ Has(tun.log, "read:Ok") => Len(tun.rewind) <= tun.bytes_read
        /\ IsPrefix(tun.to_upstream, tun.stream)
        /\ IsPrefix(tun.to_client, tun.upstream)
        /\ tun.to_upstream # <<>> =>
              IsPrefix(Prefix(tun), tun.to_upstream) /\ BlindTunnel(tun)
        /\ tun.pc = "copy" /\ CopyComplete(tun) =>
              tun.to_upstream = tun.stream /\ tun.to_client = tun.upstream

C13_Witness ==
    \E t \in DOMAIN tunnels :
        /\ tunnels[t].bytes_read \in 1..(BufferLen - 1)
        /\ Len(tunnels[t].stream) > tunnels[t].bytes_read
        /\ tunnels[t].pc = "copy" /\ CopyComplete(tunnels[t])
        /\ tunnels[t].to_upstream = tunnels[t].stream
        /\ tunnels[t].to_client = tunnels[t].upstream
        /\ tunnels[t].upstream # <<>>

(***************************************************************************)
(* C14 as stated: every CONNECT the dispatcher accepted and answered with  *)
(* the empty response, once its tunnel task has ended, has had             *)
(* should_intercept consulted exactly once, and an answer of false sent    *)
(* the connection to the blind tunnel.                                     *)
(***************************************************************************)
C14_Original ==
    \A t \in DOMAIN tunnels :
        /\ (/\ invs[tunnels[t].parent].pc = "responded"
            /\ invs[tunnels[t].parent].resp = EmptyResponse
            /\ tunnels[t].pc = "done")
              => Count(tunnels[t].log, "should_intercept") = 1
        /\ tunnels[t].intercept = "false" => BlindTunnel(tunnels[t])

(***************************************************************************)
(* C14 amended: should_intercept is consulted at most once per accepted    *)
(* CONNECT: exactly once when the upgrade and the first read succeeded,    *)
(* not at all when the upgrade or the first read failed; whenever it       *)
(* answers false the task goes on to dial the authority for the blind      *)
(* tunnel.                                                                 *)
(***************************************************************************)
C14_ShouldInterceptOnce ==
    /\ \A t \in DOMAIN tunnels :
          LET tun == tunnels[t] IN
          /\ invs[tun.parent].resp = EmptyResponse /\ tun.authority # NoAuthority
          /\ Count(tun.log, "should_intercept") = IF Has(tun.log, "read:Ok") THEN 1 ELSE 0
          /\ Has(tun.log, "upgrade:Err") \/ Has(tun.log, "read:Err") =>
                tun.pc = "done" /\ ~Has(tun.log, "read:Ok")
          /\ tun.intercept # "unknown" <=>
                Has(tun.log, "read:Ok") /\ tun.pc # "should_intercept"
          /\ tun.intercept = "false" =>
                /\ tun.route = "blind" /\ BlindTunnel(tun)
                /\ tun.pc \in {"connect", "copy", "done"}
    /\ handler_calls.should_intercept =
          Cardinality({t \in DOMAIN tunnels : Has(tunnels[t].log, "read:Ok")})

C14_Witness ==
    \E t \in DOMAIN tunnels :
        /\ tunnels[t].intercept = "false"
        /\ tunnels[t].bytes_read >= 2 /\ SubSeq(tunnels[t].buffer, 1, 2) = TLS_
        /\ tunnels[t].pc = "copy"
        /\ handler_calls.should_intercept = 1

(***************************************************************************)
(* C15: normalize_request leaves a request without Cookie values without   *)
(* any, and turns Cookie values v1..vn, n >= 1, into the single value      *)
(* v1 "; " v2 .. "; " vn: its length is the sum of theirs plus two per     *)
(* gap, each vk stands at its place in order and "; " stands in each gap.  *)
(***************************************************************************)
RECURSIVE StartOf(_, _)
StartOf(values, k) ==
    IF k = 1 THEN 1 ELSE StartOf(values, k - 1) + Len(values[k - 1]) + 2

Joined(values, out) ==
    LET n == Len(values) IN
    /\ Len(out) = StartOf(values, n) + Len(values[n]) - 1
    /\ \A k \in 1..n : \A j \in 1..Len(values[k]) :
          out[StartOf(values, k) + j - 1] = values[k][j]
    /\ \A k \in 1..(n - 1) :
          /\ out[StartOf(values, k) + Len(values[k])] = 59
          /\ out[StartOf(values, k) + Len(values[k]) + 1] = 32

C15_CookieJoin ==
    norm.pc = "normalized" =>
        LET values == norm.req.headers.cookie
            after == norm.out.headers.cookie
        IN  IF values = <<>> THEN after = <<>>
            ELSE Len(after) = 1 /\ Joined(values, after[1])

C15_Witness ==
    /\ norm.pc = "normalized"
    /\ norm.req.headers.cookie = <<CookieA, CookieB, CookieA>>
    /\ norm.out.headers.cookie = << <<97, 61, 49, 59, 32, 98, 59, 32, 97, 61, 49>> >>

(***************************************************************************)
(* C16: every request the dispatcher has handed to the outbound HTTP       *)
(* client is the normalized one: it has no Host header, at most one Cookie *)
(* value and version HTTP/1.1, whatever request handle_request returned;   *)
(* and only a request normalized this way is ever in flight.               *)
(***************************************************************************)
C16_NoHostToClient ==
    \A i \in DOMAIN invs :
        /\ invs[i].pc = "client_request" =>
              /\ invs[i].req.headers.host = <<>>
              /\ Len(invs[i].req.headers.cookie) <= 1
              /\ invs[i].req.version = "HTTP/1.1"
              /\ Has(invs[i].log, "normalize_request")
              /\ Pos(invs[i].log, "normalize_request")
                    < Pos(invs[i].log, "client.request")
        /\ Has(invs[i].log, "client.request") =>
              Count(invs[i].log, "normalize_request") = 1

C16_Witness ==
    \E i \in DOMAIN invs :
        /\ invs[i].pc = "client_request"
        /\ invs[i].req.headers = [host |-> <<>>, cookie |-> <<CookieA>>]
        /\ invs[i].req.uri.authority = Authority

(***************************************************************************)
(* C17: every request the inner HTTP server of a MITM'd tunnel receives is *)
(* passed to the dispatcher, so that handle_request is called on it, and a *)
(* request of version HTTP/1.0 or HTTP/1.1 arrives there with the scheme   *)
(* the demultiplexer chose, the authority of the CONNECT and its path.     *)
(***************************************************************************)
InnerOf(t) == {i \in DOMAIN invs : invs[i].origin = t}

C17_InnerRequestsRewritten ==
    \A t \in DOMAIN tunnels :
        /\ Count(tunnels[t].log, "request") = Cardinality(InnerOf(t))
        /\ \A i \in InnerOf(t) :
              /\ Has(invs[i].log, "handle_request")
              /\ (invs[i].pc = "handle_request"
                    /\ invs[i].req.version \in {"HTTP/1.0", "HTTP/1.1"}) =>
                       /\ invs[i].req.uri.scheme = tunnels[t].scheme
                       /\ invs[i].req.uri.authority = tunnels[t].authority
                       /\ invs[i].req.uri.path

(***************************************************************************)
(* C18: a tunnel task whose TLS accept failed has ended there: it never    *)
(* served the stream, no request of it reached the dispatcher, it dialed   *)
(* nothing and moved no byte; and the step in which the accept fails       *)
(* changes no invocation, no bridge and no other tunnel.                   *)
(***************************************************************************)
EndedAtTlsAccept(tun) ==
    /\ tun.pc = "done"
    /\ tun.intercept = "true" /\ SubSeq(tun.buffer, 1, 2) = TLS_
    /\ tun.log[Len(tun.log)] = "tls_accept:Err"
    /\ ~Has(tun.log, "serve_stream") /\ ~Has(tun.log, "request")
    /\ ~Has(tun.log, "connect") /\ ~Has(tun.log, "copy_bidirectional")
    /\ tun.to_upstream = <<>> /\ tun.scheme = NoScheme

C18_TlsAcceptFailure ==
    [][\A t \in DOMAIN tunnels :
          Has(tunnels'[t].log, "tls_accept:Err") =>
              /\ EndedAtTlsAccept(tunnels'[t])
              /\ {i \in DOMAIN invs' : invs'[i].origin = t} = {}
              /\ ~Has(tunnels[t].log, "tls_accept:Err") =>
                    /\ tunnels[t].pc = "tls_accept"
                    /\ invs' = invs /\ bridges' = bridges
                    /\ handler_calls' = handler_calls
                    /\ \A u \in DOMAIN tunnels \ {t} : tunnels'[u] = tunnels[u]]_vars

C18_Witness ==
    \E t \in DOMAIN tunnels : \E j \in DOMAIN invs :
        /\ Has(tunnels[t].log, "tls_accept:Err") /\ tunnels[t].pc = "done"
        /\ j # tunnels[t].parent
        /\ invs[j].pc = "responded" /\ invs[j].resp = FromHandleResponse

(***************************************************************************)
(* C19: a bridge task exists only after a successful outbound dial; when   *)
(* its deferred server-side upgrade fails, the socket opened to the origin *)
(* is closed, no pump is launched and the WebSocket handler is not called; *)
(* the two pumps exist only when the server-side upgrade succeeded too.    *)
(***************************************************************************)
C19_FailedUpgradeClosesUpstream ==
    /\ \A b \in DOMAIN bridges :
          LET br == bridges[b]
              parent == invs[br.parent]
          IN  /\ Has(parent.log, "connect_async:Ok")
              /\ br.pc = "websocket_await" => br.pumps = <<>> /\ br.upstream = "open"
              /\ br.pc = "done" =>
                    \/ /\ parent.pc = "dropped"
                       /\ br.upstream = "closed" /\ br.pumps = <<>>
                    \/ /\ parent.pc = "responded"
                       /\ br.upstream = "open" /\ Len(br.pumps) = 2
    /\ handler_calls.handle_websocket =
          2 * Cardinality({b \in DOMAIN bridges : bridges[b].pumps # <<>>})

C19_Witness ==
    \E b \in DOMAIN bridges :
        /\ bridges[b].pc = "done" /\ bridges[b].upstream = "closed"
        /\ bridges[b].pumps = <<>>
        /\ Has(invs[bridges[b].parent].log, "connect_async:Ok")
        /\ handler_calls.handle_websocket = 0

(***************************************************************************)
(* C20: an upgrade request that is dialed upstream entered with scheme     *)
(* http and is dialed as ws, or entered with https and is dialed as wss;   *)
(* an upgrade request whose scheme is missing or is neither http nor https *)
(* is never dialed and is answered with 400.                               *)
(***************************************************************************)
C20_SchemeRewrite ==
    \A i \in DOMAIN invs :
        LET log == invs[i].log
            held == invs[i].pc \in {"connect_async", "returned"}
        IN  Has(log, "upgrade_websocket") =>
              /\ Has(log, "connect_async") /\ held =>
                    /\ Has(log, "scheme:http") => invs[i].req.uri.scheme = "ws"
                    /\ Has(log, "scheme:https") => invs[i].req.uri.scheme = "wss"
              /\ Has(log, "scheme:none") \/ Has(log, "scheme:other") =>
                    /\ ~Has(log, "connect_async")
                    /\ invs[i].pc \in Completed => invs[i].resp = BadRequest

(***************************************************************************)
(* C22: every invocation whose handle_request passed a request on has      *)
(* taken exactly one of the three routes, and none has taken one before;   *)
(* the route is the one of the request handle_request returned, whatever   *)
(* request proxy() was called with: process_connect when its method is     *)
(* CONNECT, upgrade headers or not, else upgrade_websocket when its        *)
(* headers describe an upgrade, else the forward; an invocation on the     *)
(* CONNECT or WebSocket route never normalizes or sends the request and    *)
(* never gets to handle_response or handle_error.                          *)
(***************************************************************************)
RouteEvents == {"process_connect", "upgrade_websocket", "client.request"}

ForwardEvents ==
    {"normalize_request", "client.request", "client.request:Ok",
     "client.request:Err", "handle_response", "handle_error"}

C22_ThreeRoutes ==
    /\ \A i \in DOMAIN invs :
          LET log == invs[i].log
              req == invs[i].req
              taken == {e \in RouteEvents : Has(log, e)}
          IN  /\ Cardinality(taken) = IF Has(log, "handle_request:Request") THEN 1 ELSE 0
              /\ \A e \in RouteEvents : Count(log, e) <= 1
              /\ (Has(log, "handle_request:Request") /\ req # NoRequest) =>
                    taken = { IF req.method = "CONNECT" THEN "process_connect"
                              ELSE IF req.upgrade THEN "upgrade_websocket"
                              ELSE "client.request" }
              /\ Has(log, "process_connect") \/ Has(log, "upgrade_websocket") =>
                    /\ \A e \in ForwardEvents : ~Has(log, e)
                    /\ invs[i].pc \notin {"client_request", "handle_response",
                                          "handle_error"}
                    /\ invs[i].resp \notin {FromHandleResponse, FromHandleError}
    /\ handler_calls.handle_response + handler_calls.handle_error
          <= Cardinality({i \in DOMAIN invs : Has(invs[i].log, "client.request")})

C22_Witness ==
    \E i \in DOMAIN invs :
        /\ invs[i].origin = 0 /\ invs[i].req \notin OuterRequests
        /\ invs[i].pc = "returned" /\ invs[i].resp = EmptyResponse
        /\ invs[i].req.method = "CONNECT" /\ invs[i].req.upgrade
        /\ Has(invs[i].log, "process_connect")
        /\ TunnelsOf(i) # {}

(***************************************************************************)
(* C23: the buffer the sniff compares holds the bytes the first read       *)
(* returned and zeros behind them, whatever the client sends next.  Once   *)
(* should_intercept has answered, a first read of fewer than 4 bytes has   *)
(* not selected plaintext-MITM and one of fewer than 2 bytes has not       *)
(* selected TLS-MITM; a connection that missed both this way, a first read *)
(* of 0 bytes included, is in the blind tunnel with the authority dialed.  *)
(* A failed first read has ended the task with should_intercept not called *)
(* and nothing dialed.                                                     *)
(***************************************************************************)
C23_SniffOnFirstReadOnly ==
    \A t \in DOMAIN tunnels :
        LET tun == tunnels[t]
            n == tun.bytes_read
            tls == n >= 2 /\ tun.stream[1] = 22 /\ tun.stream[2] = 3
        IN  /\ Count(tun.log, "read:Ok") + Count(tun.log, "read:Err") <= 1
            /\ Has(tun.log, "read:Ok") =>
                  /\ n <= BufferLen /\ n <= Len(tun.stream)
                  /\ \A k \in 1..BufferLen :
                        tun.buffer[k] = IF k <= n THEN tun.stream[k] ELSE 0
            /\ tun.intercept # "unknown" =>
                  /\ n < 4 => tun.route # "plaintext_mitm" /\ tun.scheme # "http"
                  /\ n < 2 => tun.route # "tls_mitm" /\ ~Has(tun.log, "tls_accept")
                  /\ (n < 4 /\ ~tls) =>
                        /\ tun.route = "blind" /\ BlindTunnel(tun)
                        /\ tun.pc \in {"connect", "copy", "done"}
            /\ Has(tun.log, "read:Err") =>
                  /\ tun.pc = "done" /\ tun.log = <<"upgraded", "read:Err">>
                  /\ tun.intercept = "unknown" /\ tun.route = "none"
                  /\ tun.upstream = <<>> /\ tun.to_upstream = <<>>

C23_Witness ==
    \E t \in DOMAIN tunnels :
        /\ tunnels[t].stream = <<71, 69, 84, 32, 47>>
        /\ tunnels[t].bytes_read = 3
        /\ tunnels[t].intercept = "true"
        /\ tunnels[t].route = "blind"
        /\ Has(tunnels[t].log, "connect:Ok") /\ tunnels[t].pc = "copy"

(***************************************************************************)
(* C21 as stated: a failed dial ends the task with no byte copied, and     *)
(* once the client side or the upstream side of a blind tunnel has closed, *)
(* the tunnel task eventually ends.                                        *)
(***************************************************************************)
DialFailed(tun) ==
    Has(tun.log, "connect:Err") =>
        /\ tun.pc = "done" /\ tun.log[Len(tun.log)] = "connect:Err"
        /\ ~Has(tun.log, "copy_bidirectional")
        /\ tun.to_upstream = <<>> /\ tun.to_client = <<>>

Copying(t) == t \in DOMAIN tunnels /\ tunnels[t].pc = "copy"

Ended(t) == t \in DOMAIN tunnels /\ tunnels[t].pc = "done"

C21_Original ==
    /\ [](\A t \in DOMAIN tunnels : DialFailed(tunnels[t]))
    /\ \A t \in 1..MaxTunnels :
          (Copying(t) /\ (tunnels[t].client_eof \/ tunnels[t].upstream_eof))
              ~> Ended(t)

(***************************************************************************)
(* C21 amended: a failed dial ends the task with no byte copied.  In the   *)
(* copy, the bytes either side has sent get delivered to the other side,   *)
(* also after one side has closed, unless a transport error ends the task  *)
(* first; the task ends with Ok only when both sides have closed and with  *)
(* Err on a transport error; once both the client side and the upstream    *)
(* side have closed, the task eventually ends.                             *)
(***************************************************************************)
Delivered(t) ==
    /\ Copying(t)
    /\ tunnels[t].to_upstream = tunnels[t].stream
    /\ tunnels[t].to_client = tunnels[t].upstream

C21_BlindTunnelTermination ==
    /\ [](\A t \in DOMAIN tunnels : DialFailed(tunnels[t]))
    /\ [][\A t \in DOMAIN tunnels :
            (tunnels[t].pc = "copy" /\ tunnels'[t].pc = "done") =>
                LET last == tunnels'[t].log[Len(tunnels'[t].log)] IN
                \/ last = "copy:Err"
                \/ /\ last = "copy:Ok"
                   /\ tunnels[t].client_eof /\ tunnels[t].upstream_eof
                   /\ tunnels[t].to_upstream = tunnels[t].stream
                   /\ tunnels[t].to_client = tunnels[t].upstream]_vars
    /\ \A t \in 1..MaxTunnels :
          /\ Copying(t) ~> (Ended(t) \/ Delivered(t))
          /\ (Copying(t) /\ tunnels[t].client_eof /\ tunnels[t].upstream_eof)
                ~> Ended(t)

C21_Witness ==
    \E t \in DOMAIN tunnels :
        /\ tunnels[t].pc = "copy"
        /\ tunnels[t].client_eof /\ ~tunnels[t].upstream_eof
        /\ tunnels[t].stream # <<>>
        /\ tunnels[t].to_upstream = tunnels[t].stream
        /\ tunnels[t].to_client # tunnels[t].upstream

====
